---- MODULE Spec2Model ----
(***************************************************************************)
(* Model of app_tuned_recent_form_with_confidence.py: recency-weighted     *)
(* feature aggregation with a recent-form trend, bootstrap confidence      *)
(* intervals, chronological cross-validation and rank assembly.            *)
(*                                                                         *)
(* Real numbers are fixed-point integers in thousandths (1.0 = 1000);      *)
(* means and percentiles are exact rationals [num, den] (den = 0 is NaN).  *)
(* The random-forest regressor is a library: fit records the rows a model  *)
(* object was trained on, predict returns any value of RawOutputs.         *)
(***************************************************************************)
EXTENDS Integers, Sequences, FiniteSets

VARIABLES
    pc,                    \* position of the running call
    raised,                \* exception that ended the run, "none" if none
    teams,                 \* argument teams of compare_predictions_with_confidence
    prediction_year,       \* argument prediction_year
    confidence_level,      \* argument confidence_level, in percent
    rf_model,              \* the module-level regressor object
    i,                     \* enumerate index of the team loop (line 257)
    predictions,           \* list built at line 309, ranked at 313-317
    confidence_intervals,  \* list built at line 289
    boot,                  \* frame of bootstrap_confidence_interval_recent_form
    ci_results,            \* value returned by the bootstrap call
    cv,                    \* frame of cross_validate_time_series
    comparison_df,         \* the merged report of lines 320-330
    trend,                 \* frame of a direct calculate_recent_form_score call
    last,                  \* the most recent prediction made (observer)
    twin                   \* a second run of the bootstrap call on the same arguments

vars == <<pc, raised, teams, prediction_year, confidence_level, rf_model, i,
          predictions, confidence_intervals, boot, ci_results, cv,
          comparison_df, trend, last, twin>>

----------------------------------------------------------------------------
(* Bounds and input sets                                                   *)

\* n_bootstrap passed by compare_predictions_with_confidence (100 at line 268)
CompareBootstraps == 2
\* largest n_bootstrap of a direct call of the bootstrap function
MaxBootstrap == 3
\* most rows handed to a direct call of calculate_recent_form_score
MaxTrendRows == 2

\* lists of teams handed to compare_predictions_with_confidence: C has no row
\* before 2021
TeamLists ==
    { <<>>, <<"A">>, <<"B">>, <<"C">>,
      <<"A", "B">>, <<"B", "A">>, <<"A", "A">>, <<"C", "A">>, <<"B", "C">>,
      <<"C", "C">>, <<"A", "C", "B">> }
PredictionYears == {2019, 2021}
\* confidence levels in percent, all inside (0, 100)
ConfidenceLevels == {20, 95}
\* outputs of the regressor, in thousandths
RawOutputs == {1000, 20000}
\* draws of np.random.normal(0, 0.01), in hundredths of a year
Noise == {-1, 1, 2}

----------------------------------------------------------------------------
(* The dataset read at line 13: one row per team and season; id is the     *)
(* row's index label                                                      *)

data ==
    << [id |-> 1, team |-> "A", season_end_year |-> 2019, points |-> 44, position |-> 13],
       [id |-> 2, team |-> "A", season_end_year |-> 2020, points |-> 54, position |-> 8],
       [id |-> 3, team |-> "B", season_end_year |-> 2020, points |-> 38, position |-> 17],
       [id |-> 4, team |-> "C", season_end_year |-> 2021, points |-> 50, position |-> 10] >>

last_n_seasons == 3

----------------------------------------------------------------------------
(* Sequence helpers                                                        *)

Range(s) == {s[k] : k \in DOMAIN s}

RECURSIVE SumSeq(_)
SumSeq(s) == IF s = <<>> THEN 0 ELSE Head(s) + SumSeq(Tail(s))

Min2(a, b) == IF a < b THEN a ELSE b
Max2(a, b) == IF a > b THEN a ELSE b

\* nondecreasing sequences of length len over 1..n: the multisets a draw of
\* len rows out of n with replacement can produce
RECURSIVE Multisets(_, _)
Multisets(len, n) ==
    IF len = 0 THEN {<<>>}
    ELSE UNION {{Append(m, v) : v \in (IF m = <<>> THEN 1 ELSE m[Len(m)])..n}
                    : m \in Multisets(len - 1, n)}

----------------------------------------------------------------------------
(* calculate_recent_form_score, lines 48-91                                *)

\* line 54: rows of the recent seasons only
RecentData(team_data, current_year) ==
    SelectSeq(team_data,
              LAMBDA r : r.season_end_year >= current_year - last_n_seasons)

MinYear(rows) ==
    CHOOSE y \in {rows[k].season_end_year : k \in DOMAIN rows} :
        \A k \in DOMAIN rows : y <= rows[k].season_end_year

\* line 66, in hundredths of a year
YearsNormalized(rows) ==
    [k \in DOMAIN rows |-> 100 * (rows[k].season_end_year - MinYear(rows))]

\* line 69: len(np.unique(years_normalized)) < 2
NeedsJitter(rows) == Cardinality(Range(YearsNormalized(rows))) < 2

\* least-squares line through (x[k], y[k]): slope = LsNum / LsDen
LsNum(x, y) ==
    Len(x) * SumSeq([k \in DOMAIN x |-> x[k] * y[k]]) - SumSeq(x) * SumSeq(y)
LsDen(x) ==
    Len(x) * SumSeq([k \in DOMAIN x |-> x[k] * x[k]]) - SumSeq(x) * SumSeq(x)

\* line 70: the abscissae the fit can see.  Without jitter there is one; with
\* jitter one per draw of the noise (draws that leave all abscissae equal
\* have probability zero and are left out).
FitAbscissae(rows) ==
    IF NeedsJitter(rows)
    THEN {x \in [DOMAIN rows -> Noise] : LsDen(x) # 0}
    ELSE {YearsNormalized(rows)}

Clamp(lo, hi, v) == Max2(lo, Min2(hi, v))

\* lines 73-84 for one choice of abscissae, in thousandths:
\* 0.6 * (points slope / 5) + 0.4 * (-position slope / 2), slopes per year
\* (x is in hundredths of a year), capped to [-3, 3]
FormScoreOf(rows, x) ==
    LET points   == [k \in DOMAIN rows |-> rows[k].points]
        position == [k \in DOMAIN rows |-> rows[k].position]
        scaled   == (12000 * LsNum(x, points) - 20000 * LsNum(x, position))
                        \div LsDen(x)
    IN  Clamp(-3000, 3000, scaled)

\* every value calculate_recent_form_score(team_data, current_year) can return
calculate_recent_form_score(team_data, current_year) ==
    LET recent_data == RecentData(team_data, current_year)
    IN  IF Len(recent_data) < 2
        THEN {0}
        ELSE {FormScoreOf(recent_data, x) : x \in FitAbscissae(recent_data)}

----------------------------------------------------------------------------
(* weighted_average, lines 26-45                                           *)

\* line 34: exp(-year_diff / 1.05) in ten-thousandths
ExpWeight(year_diff) ==
    LET table == <<3858, 1489, 574, 222, 85, 33, 13, 5>>
    IN  IF year_diff = 0 THEN 10000
        ELSE IF year_diff \in DOMAIN table THEN table[year_diff] ELSE 1

\* line 39 for the feature points, in thousandths (gf, ga, gd, won, drawn and
\* lost are averaged by the same loop)
WeightedPoints(team_data, current_year) ==
    LET w == [k \in DOMAIN team_data |->
                 ExpWeight(current_year - team_data[k].season_end_year)]
    IN  (1000 * SumSeq([k \in DOMAIN team_data |-> team_data[k].points * w[k]]))
            \div SumSeq(w)

\* every Series weighted_average(team_data, features, current_year) can return;
\* rows and current_year record what the Series was computed from
weighted_average(team_data, current_year) ==
    {[points            |-> WeightedPoints(team_data, current_year),
      recent_form_score |-> f,
      rows              |-> {team_data[k].id : k \in DOMAIN team_data},
      current_year      |-> current_year]
        : f \in calculate_recent_form_score(team_data, current_year)}

----------------------------------------------------------------------------
(* Tables and regressor objects                                            *)

\* HistoricalData with the cutoff year let in
HistoricalDataInclusive(year) ==
    SelectSeq(data, LAMBDA r : r.season_end_year <= year)

\* line 240: data[data['season_end_year'] < prediction_year]
HistoricalData(year) ==
    SelectSeq(data, LAMBDA r : r.season_end_year < year)

\* rows[rows['team'] == team]
TeamRows(rows, team) == SelectSeq(rows, LAMBDA r : r.team = team)

\* how often each row of data occurs in a table
BagOf(rows) ==
    [k \in {rows[j].id : j \in DOMAIN rows} |->
        Cardinality({j \in DOMAIN rows : rows[j].id = k})]

\* RandomForestRegressor(...).fit(rows) on a new object made in context ctx
FreshModel(rows, ctx) == [trained_on |-> BagOf(rows), fitted_in |-> {ctx}]

\* model.fit(rows) on an existing object: the earlier fit is replaced
Refit(model, rows, ctx) ==
    [trained_on |-> BagOf(rows), fitted_in |-> model.fitted_in \cup {ctx}]

\* line 231: train_test_split(X, y, test_size=0.2, random_state=42) keeps
\* len(data) - ceil(0.2 * len(data)) rows; which ones is the shuffle's choice
TrainSplits ==
    LET n_test == (2 * Len(data) + 9) \div 10
    IN  {s \in SUBSET (1..Len(data)) : Cardinality(s) = Len(data) - n_test}

\* AdjustedPrediction without the clamp of line 286
AdjustedPredictionUnclamped(predicted_pos, form_score) ==
    predicted_pos + (-form_score * 50) \div 1000

\* lines 282-286 (the same four lines stand at 134-137 and 216-219), in
\* thousandths: predicted_pos - form_score * 0.05, kept within [1, 20]
AdjustedPrediction(predicted_pos, form_score) ==
    LET form_adjustment == (-form_score * 50) \div 1000
    IN  Clamp(1000, 20000, predicted_pos + form_adjustment)

NoPrediction ==
    [context |-> "none", team |-> "", model |-> FreshModel(<<>>, "none"),
     features |-> [points |-> 0, recent_form_score |-> 0, rows |-> {},
                   current_year |-> 0],
     predicted_pos |-> 0, adjusted_prediction |-> 0]

\* one prediction: the model object read, the Series fed to it, its output
Prediction(ctx, team, model, trend_features, predicted_pos) ==
    [context |-> ctx, team |-> team, model |-> model,
     features |-> trend_features, predicted_pos |-> predicted_pos,
     adjusted_prediction |->
         AdjustedPrediction(predicted_pos, trend_features.recent_form_score)]

----------------------------------------------------------------------------
(* np.mean, np.percentile, np.std over the collected predictions           *)

NaN == [num |-> 0, den |-> 0]

\* a <= b for rationals with positive denominators
RatLeq(a, b) == a.num * b.den <= b.num * a.den

\* the values in ascending order
RECURSIVE SortNumbers(_)
SortNumbers(s) ==
    IF s = <<>> THEN <<>>
    ELSE LET rest == SortNumbers(Tail(s))
             low  == SelectSeq(rest, LAMBDA v : v <= Head(s))
             high == SelectSeq(rest, LAMBDA v : v > Head(s))
         IN  low \o <<Head(s)>> \o high

Mean(values) == [num |-> SumSeq(values), den |-> Len(values)]

\* Percentile interpolating in the list as collected, not sorted
PercentileUnsorted(values, q200) ==
    LET at    == q200 * (Len(values) - 1)
        below == at \div 200
        frac  == at % 200
    IN  IF frac = 0
        THEN [num |-> 200 * values[below + 1], den |-> 200]
        ELSE [num |-> 200 * values[below + 1]
                          + frac * (values[below + 2] - values[below + 1]),
              den |-> 200]

\* np.percentile(values, q) with q = q200 / 2 percent, default linear method:
\* the value at virtual index (q / 100) * (n - 1) of the sorted values
Percentile(values, q200) ==
    LET a     == SortNumbers(values)
        at    == q200 * (Len(a) - 1)
        below == at \div 200
        frac  == at % 200
    IN  IF frac = 0
        THEN [num |-> 200 * a[below + 1], den |-> 200]
        ELSE [num |-> 200 * a[below + 1] + frac * (a[below + 2] - a[below + 1]),
              den |-> 200]

\* np.std(values) squared, in units of 0.01 squared: the mean squared
\* deviation, taken from the smallest value
Variance(values) ==
    LET n    == Len(values)
        low  == SortNumbers(values)[1]
        dev  == [k \in DOMAIN values |-> (values[k] - low) \div 10]
    IN  [num |-> n * SumSeq([k \in DOMAIN dev |-> dev[k] * dev[k]])
                     - SumSeq(dev) * SumSeq(dev),
         den |-> n * n]

\* lines 142-157 when predictions were collected; level is in percent, so
\* lower_percentile = (100 - level) / 2 and upper_percentile = (100 + level) / 2
IntervalRecord(bootstrap_predictions, level) ==
    [prediction       |-> Mean(bootstrap_predictions),
     lower_bound      |-> Percentile(bootstrap_predictions, 100 - level),
     upper_bound      |-> Percentile(bootstrap_predictions, 100 + level),
     variance         |-> Variance(bootstrap_predictions),
     confidence_level |-> level]

\* lines 146-157 on an empty list: np.mean and np.std give nan with a warning
NaNRecord(level) ==
    [prediction |-> NaN, lower_bound |-> NaN, upper_bound |-> NaN,
     variance |-> NaN, confidence_level |-> level]

NoRecord ==
    [prediction |-> NaN, lower_bound |-> NaN, upper_bound |-> NaN,
     variance |-> NaN, confidence_level |-> 0]

----------------------------------------------------------------------------
(* Rank assembly and report, lines 312-330                                 *)

\* InsertPrediction placing x ahead of entries with the same key
RECURSIVE InsertPredictionBeforeEqual(_, _)
InsertPredictionBeforeEqual(s, x) ==
    IF s = <<>> THEN <<x>>
    ELSE IF x.PredictedPosition <= Head(s).PredictedPosition THEN <<x>> \o s
         ELSE <<Head(s)>> \o InsertPredictionBeforeEqual(Tail(s), x)

\* x placed behind every entry whose key is not larger: equal keys keep the
\* order in which they were appended
RECURSIVE InsertPrediction(_, _)
InsertPrediction(s, x) ==
    IF s = <<>> THEN <<x>>
    ELSE IF x.PredictedPosition < Head(s).PredictedPosition THEN <<x>> \o s
         ELSE <<Head(s)>> \o InsertPrediction(Tail(s), x)

\* line 313: predictions.sort(key=lambda x: x['Predicted Position'])
RECURSIVE SortPredictions(_)
SortPredictions(s) ==
    IF s = <<>> THEN <<>>
    ELSE InsertPrediction(SortPredictions(SubSeq(s, 1, Len(s) - 1)), s[Len(s)])

\* AssignRanks giving entries with the same position the same rank
AssignRanksShared(s) ==
    [k \in DOMAIN s |->
        [s[k] EXCEPT !.PredictedPosition =
            1 + Cardinality({j \in DOMAIN s :
                  s[j].PredictedPosition < s[k].PredictedPosition})]]

\* lines 316-317: enumerate(predictions, start=1) overwrites the position
AssignRanks(s) == [k \in DOMAIN s |-> [s[k] EXCEPT !.PredictedPosition = k]]

\* the standings handed to compare_predictions_with_confidence
actual_standings ==
    << [Team |-> "A", ActualPosition |-> 1],
       [Team |-> "B", ActualPosition |-> 2],
       [Team |-> "Z", ActualPosition |-> 3] >>

RECURSIVE Flatten(_)
Flatten(ss) == IF ss = <<>> THEN <<>> ELSE Head(ss) \o Flatten(Tail(ss))

\* lines 320-330: inner joins on the team name, then the difference
MergeReport(ranked, intervals) ==
    LET with_actual(p) ==
            LET hits == SelectSeq(actual_standings, LAMBDA a : a.Team = p.Team)
            IN  [k \in DOMAIN hits |->
                    [Team |-> p.Team, PredictedPosition |-> p.PredictedPosition,
                     ActualPosition |-> hits[k].ActualPosition,
                     PositionDifference |->
                         p.PredictedPosition - hits[k].ActualPosition]]
        comparison == Flatten([k \in DOMAIN ranked |-> with_actual(ranked[k])])
        with_ci(c) ==
            LET hits == SelectSeq(intervals, LAMBDA v : v.team = c.Team)
            IN  [k \in DOMAIN hits |-> [row |-> c, interval |-> hits[k]]]
    IN  Flatten([k \in DOMAIN comparison |-> with_ci(comparison[k])])

----------------------------------------------------------------------------
(* State after the module is loaded, lines 13-235                          *)

NoBoot ==
    [team |-> "", n_bootstrap |-> 0, iteration |-> 0,
     bootstrap_predictions |-> <<>>, phase |-> "none",
     rf_boot |-> FreshModel(<<>>, "none"), team_bootstrap |-> <<>>,
     caller |-> "none"]

NoCv ==
    [period |-> 0, phase |-> "none", rf_cv |-> FreshModel(<<>>, "none"),
     data |-> <<>>, rows |-> <<>>, fold_predictions |-> <<>>, fold_actuals |-> <<>>,
     cv_scores |-> <<>>, result |-> NaN, caller |-> "none"]

NoTrend == [team_data |-> <<>>, current_year |-> 0, returned |-> FALSE, value |-> 0]

\* no second run: historical_data is the table both runs are handed,
\* bootstrap_predictions and ci_results are the second run's list and result
NoTwin ==
    [historical_data |-> <<>>, bootstrap_predictions |-> <<>>,
     ci_results |-> NoRecord, raised |-> "none"]

\* lines 234-235: rf_model is made and fitted on the training part of the
\* split; nothing has been predicted yet
Loaded ==
    /\ raised = "none"
    /\ teams = <<>>
    /\ \E split \in TrainSplits :
           rf_model = FreshModel(SelectSeq(data, LAMBDA r : r.id \in split),
                                 "module")
    /\ i = 0
    /\ predictions = <<>>
    /\ confidence_intervals = <<>>
    /\ ci_results = NoRecord
    /\ comparison_df = <<>>
    /\ last = NoPrediction

\* the script: compare_predictions_with_confidence is about to be called
Init ==
    /\ pc = "loaded"
    /\ Loaded
    /\ prediction_year = 0
    /\ confidence_level = 0
    /\ boot = NoBoot
    /\ cv = NoCv
    /\ trend = NoTrend
    /\ twin = NoTwin

----------------------------------------------------------------------------
(* compare_predictions_with_confidence, lines 238-317                      *)

\* lines 240-253: entry, the cutoff filter and the refit of rf_model
Compare ==
    /\ pc = "loaded"
    /\ \E t \in TeamLists, y \in PredictionYears, c \in ConfidenceLevels :
           /\ teams' = t
           /\ prediction_year' = y
           /\ confidence_level' = c
           /\ IF HistoricalData(y) = <<>>
              THEN /\ raised' = "ValueError"
                   /\ pc' = "raised"
                   /\ UNCHANGED <<twin, rf_model, i>>
              ELSE /\ rf_model' = Refit(rf_model, HistoricalData(y), "main")
                   /\ i' = 1
                   /\ pc' = "team_loop"
                   /\ UNCHANGED raised
    /\ UNCHANGED <<twin, predictions, confidence_intervals, boot, ci_results, cv,
                   comparison_df, trend, last>>

\* SkipTeam predicting the team from an all-zero feature vector instead
SkipTeamZeroVector ==
    /\ pc = "team_loop"
    /\ i <= Len(teams)
    /\ TeamRows(HistoricalData(prediction_year), teams[i]) = <<>>
    /\ \E predicted_pos \in RawOutputs :
           predictions' = Append(predictions,
               [Team |-> teams[i],
                PredictedPosition |-> AdjustedPrediction(predicted_pos, 0),
                idx |-> i,
                adjusted |-> AdjustedPrediction(predicted_pos, 0)])
    /\ i' = i + 1
    /\ UNCHANGED <<twin, pc, raised, teams, prediction_year, confidence_level,
                   rf_model, confidence_intervals, boot, ci_results, cv,
                   comparison_df, trend, last>>

\* lines 261-265: a team without rows before prediction_year is passed over
SkipTeam ==
    /\ pc = "team_loop"
    /\ i <= Len(teams)
    /\ TeamRows(HistoricalData(prediction_year), teams[i]) = <<>>
    /\ i' = i + 1
    /\ UNCHANGED <<twin, pc, raised, teams, prediction_year, confidence_level,
                   rf_model, predictions, confidence_intervals, boot,
                   ci_results, cv, comparison_df, trend, last>>

\* lines 266-269: the bootstrap call for a team that has rows
CallBootstrap ==
    /\ pc = "team_loop"
    /\ i <= Len(teams)
    /\ TeamRows(HistoricalData(prediction_year), teams[i]) # <<>>
    /\ boot' = [NoBoot EXCEPT !.team = teams[i],
                              !.n_bootstrap = CompareBootstraps,
                              !.phase = "draw",
                              !.caller = "compare"]
    /\ pc' = "bootstrap"
    /\ UNCHANGED <<twin, raised, teams, prediction_year, confidence_level, rf_model,
                   i, predictions, confidence_intervals, ci_results, cv,
                   comparison_df, trend, last>>

----------------------------------------------------------------------------
(* bootstrap_confidence_interval_recent_form, lines 94-157                 *)

\* where the bootstrap call returns to
AfterBootstrap == IF boot.caller = "compare" THEN "predict" ELSE "returned"

\* lines 111-137, the body of the loop: a draw with replacement of
\* len(historical_data) rows, a new regressor fitted on it, and a prediction
\* if the draw holds a row of the team
BootstrapDraw ==
    /\ pc = "bootstrap"
    /\ boot.phase = "draw"
    /\ boot.iteration < boot.n_bootstrap
    /\ LET historical_data == HistoricalData(prediction_year)
           n == Len(historical_data)
       IN  \E draw \in Multisets(n, n) :
             LET bootstrap_sample ==
                     [k \in DOMAIN draw |-> historical_data[draw[k]]]
                 rf_boot == FreshModel(bootstrap_sample, "bootstrap")
                 team_bootstrap == TeamRows(bootstrap_sample, boot.team)
             IN  /\ boot' = [boot EXCEPT !.phase = "drawn",
                                         !.rf_boot = rf_boot,
                                         !.team_bootstrap = team_bootstrap]
                 /\ IF Len(team_bootstrap) > 0
                    THEN \E trend_features \in
                              weighted_average(team_bootstrap, prediction_year),
                            predicted_pos \in RawOutputs :
                           last' = Prediction("bootstrap", boot.team, rf_boot,
                                              trend_features, predicted_pos)
                    ELSE last' = NoPrediction
    /\ UNCHANGED <<twin, pc, raised, teams, prediction_year, confidence_level,
                   rf_model, i, predictions, confidence_intervals, ci_results,
                   cv, comparison_df, trend>>

\* line 139 and the loop's next pass: the prediction, if one was made, joins
\* the list; the pass's sample and regressor are dropped
BootstrapCollect ==
    /\ pc = "bootstrap"
    /\ boot.phase = "drawn"
    /\ boot' = [boot EXCEPT
         !.phase = "draw",
         !.iteration = @ + 1,
         !.rf_boot = NoBoot.rf_boot,
         !.team_bootstrap = <<>>,
         !.bootstrap_predictions =
             IF Len(boot.team_bootstrap) > 0
             THEN Append(@, last.adjusted_prediction) ELSE @]
    /\ last' = NoPrediction
    /\ UNCHANGED <<twin, pc, raised, teams, prediction_year, confidence_level,
                   rf_model, i, predictions, confidence_intervals, ci_results,
                   cv, comparison_df, trend>>

\* lines 141-157 with at least one collected prediction
BootstrapReturn ==
    /\ pc = "bootstrap"
    /\ boot.phase = "draw"
    /\ boot.iteration = boot.n_bootstrap
    /\ boot.bootstrap_predictions # <<>>
    /\ ci_results' = IntervalRecord(boot.bootstrap_predictions, confidence_level)
    /\ pc' = AfterBootstrap
    /\ UNCHANGED <<twin, raised, teams, prediction_year, confidence_level, rf_model,
                   i, predictions, confidence_intervals, boot, cv,
                   comparison_df, trend, last>>

\* lines 141-157 with no collected prediction, on a numpy whose percentile
\* of an empty list is nan: a record of nans is returned
BootstrapReturnEmptyNaN ==
    /\ pc = "bootstrap"
    /\ boot.phase = "draw"
    /\ boot.iteration = boot.n_bootstrap
    /\ boot.bootstrap_predictions = <<>>
    /\ ci_results' = NaNRecord(confidence_level)
    /\ pc' = AfterBootstrap
    /\ UNCHANGED <<twin, raised, teams, prediction_year, confidence_level, rf_model,
                   i, predictions, confidence_intervals, boot, cv,
                   comparison_df, trend, last>>

\* lines 141-147 with no collected prediction, on a numpy whose percentile
\* indexes the empty list: IndexError leaves the function and its caller
BootstrapReturnEmptyIndexError ==
    /\ pc = "bootstrap"
    /\ boot.phase = "draw"
    /\ boot.iteration = boot.n_bootstrap
    /\ boot.bootstrap_predictions = <<>>
    /\ raised' = "IndexError"
    /\ pc' = "raised"
    /\ UNCHANGED <<twin, teams, prediction_year, confidence_level, rf_model, i,
                   predictions, confidence_intervals, boot, ci_results, cv,
                   comparison_df, trend, last>>

----------------------------------------------------------------------------
(* compare_predictions_with_confidence, continued                          *)

RatMinus(a, b) ==
    IF a.den = 0 \/ b.den = 0 THEN NaN
    ELSE [num |-> a.num * b.den - b.num * a.den, den |-> a.den * b.den]

\* lines 271-310: the point prediction of teams[i] by rf_model, the interval
\* entry and the prediction entry (idx and adjusted keep the loop index and
\* the value that line 317 later overwrites)
PredictTeam ==
    /\ pc = "predict"
    /\ LET team == teams[i]
           team_data == TeamRows(HistoricalData(prediction_year), team)
       IN  \E trend_features \in weighted_average(team_data, prediction_year),
              predicted_pos \in RawOutputs :
             LET made == Prediction("main", team, rf_model, trend_features,
                                    predicted_pos)
             IN  /\ last' = made
                 /\ confidence_intervals' = Append(confidence_intervals,
                        [team |-> team,
                         prediction |-> ci_results.prediction,
                         lower_bound |-> ci_results.lower_bound,
                         upper_bound |-> ci_results.upper_bound,
                         variance |-> ci_results.variance,
                         interval_width |-> RatMinus(ci_results.upper_bound,
                                                     ci_results.lower_bound)])
                 /\ predictions' = Append(predictions,
                        [Team |-> team,
                         PredictedPosition |-> made.adjusted_prediction,
                         idx |-> i,
                         adjusted |-> made.adjusted_prediction])
    /\ i' = i + 1
    /\ pc' = "team_loop"
    /\ UNCHANGED <<twin, raised, teams, prediction_year, confidence_level, rf_model,
                   boot, ci_results, cv, comparison_df, trend>>

\* lines 312-341: sort, ranks, the merges (pd.merge on 'Team' raises KeyError
\* when no prediction was made, the frame then having no columns), and the
\* call of cross_validate_time_series
RankPredictions ==
    /\ pc = "team_loop"
    /\ i > Len(teams)
    /\ predictions' = AssignRanks(SortPredictions(predictions))
    /\ IF predictions = <<>>
       THEN /\ raised' = "KeyError"
            /\ pc' = "raised"
            /\ UNCHANGED <<twin, comparison_df, cv>>
       ELSE /\ comparison_df' = MergeReport(predictions', confidence_intervals)
            /\ cv' = [NoCv EXCEPT !.data = data, !.period = 1,
                                  !.phase = "period", !.caller = "compare"]
            /\ pc' = "cross_validate"
            /\ UNCHANGED raised
    /\ UNCHANGED <<twin, teams, prediction_year, confidence_level, rf_model, i,
                   confidence_intervals, boot, ci_results, trend, last>>

----------------------------------------------------------------------------
(* cross_validate_time_series, lines 160-228                               *)

\* lines 166-170
cv_periods ==
    << [train_end |-> 2013, test_start |-> 2014, test_end |-> 2016],
       [train_end |-> 2016, test_start |-> 2017, test_end |-> 2019],
       [train_end |-> 2019, test_start |-> 2020, test_end |-> 2023] >>

\* TrainData reaching to the end of the test window
TrainDataThroughTestEnd(period) ==
    SelectSeq(cv.data, LAMBDA r : r.season_end_year <= period.test_end)

\* line 176
TrainData(period) ==
    SelectSeq(cv.data, LAMBDA r : r.season_end_year <= period.train_end)

\* lines 177-178
TestData(period) ==
    SelectSeq(cv.data, LAMBDA r : /\ r.season_end_year >= period.test_start
                               /\ r.season_end_year <= period.test_end)

\* line 192: test_data['team'].unique(), in order of first appearance
RECURSIVE UniqueTeams(_)
UniqueTeams(rows) ==
    IF rows = <<>> THEN <<>>
    ELSE LET before == UniqueTeams(SubSeq(rows, 1, Len(rows) - 1))
             t == rows[Len(rows)].team
         IN  IF t \in Range(before) THEN before ELSE Append(before, t)

\* lines 198-201: the test rows in the order the two loops visit them
TestRowsInOrder(test_data) ==
    LET test_teams == UniqueTeams(test_data)
    IN  Flatten([k \in DOMAIN test_teams |-> TeamRows(test_data, test_teams[k])])

RatPlus(a, b) ==
    IF a.den = 0 \/ b.den = 0 THEN NaN
    ELSE [num |-> a.num * b.den + b.num * a.den, den |-> a.den * b.den]

\* line 225: r2_score(fold_actuals, fold_predictions); actuals are whole
\* positions, predictions are in thousandths
R2Score(fold_actuals, fold_predictions) ==
    LET n       == Len(fold_actuals)
        ss_res  == SumSeq([k \in DOMAIN fold_actuals |->
                      (1000 * fold_actuals[k] - fold_predictions[k])
                    * (1000 * fold_actuals[k] - fold_predictions[k])])
        ss_tot_n == n * SumSeq([k \in DOMAIN fold_actuals |->
                                   fold_actuals[k] * fold_actuals[k]])
                    - SumSeq(fold_actuals) * SumSeq(fold_actuals)
    IN  IF n < 2 THEN NaN
        ELSE IF ss_tot_n = 0
             THEN (IF ss_res = 0 THEN [num |-> 1, den |-> 1]
                                 ELSE [num |-> 0, den |-> 1])
             ELSE [num |-> 1000000 * ss_tot_n - n * ss_res,
                   den |-> 1000000 * ss_tot_n]

RECURSIVE RatSum(_)
RatSum(scores) ==
    IF scores = <<>> THEN [num |-> 0, den |-> 1]
    ELSE RatPlus(Head(scores), RatSum(Tail(scores)))

\* line 228: np.mean(cv_scores) if cv_scores else 0.0
CvResult(cv_scores) ==
    IF cv_scores = <<>> THEN [num |-> 0, den |-> 1]
    ELSE LET total == RatSum(cv_scores)
         IN  [num |-> total.num, den |-> total.den * Len(cv_scores)]

CurrentPeriod == cv_periods[cv.period]

CvUnchanged ==
    UNCHANGED <<twin, raised, teams, prediction_year, confidence_level, rf_model, i,
                predictions, confidence_intervals, boot, ci_results,
                comparison_df, trend>>

\* lines 176-181: a period without training rows or without test rows
CvSkipPeriod ==
    /\ pc = "cross_validate"
    /\ cv.phase = "period"
    /\ cv.period <= Len(cv_periods)
    /\ TrainData(CurrentPeriod) = <<>> \/ TestData(CurrentPeriod) = <<>>
    /\ cv' = [cv EXCEPT !.period = @ + 1]
    /\ UNCHANGED <<twin, pc, last>>
    /\ CvUnchanged

\* lines 176-196: the fold's regressor is made and fitted on the training rows
CvStartPeriod ==
    /\ pc = "cross_validate"
    /\ cv.phase = "period"
    /\ cv.period <= Len(cv_periods)
    /\ TrainData(CurrentPeriod) # <<>>
    /\ TestData(CurrentPeriod) # <<>>
    /\ cv' = [cv EXCEPT !.phase = "rows",
                        !.rf_cv = FreshModel(TrainData(CurrentPeriod), "cv"),
                        !.rows = TestRowsInOrder(TestData(CurrentPeriod)),
                        !.fold_predictions = <<>>,
                        !.fold_actuals = <<>>]
    /\ UNCHANGED <<twin, pc, last>>
    /\ CvUnchanged

\* lines 203-206: a test row of a team without training rows
CvSkipRow ==
    /\ pc = "cross_validate"
    /\ cv.phase = "rows"
    /\ cv.rows # <<>>
    /\ TeamRows(TrainData(CurrentPeriod), Head(cv.rows).team) = <<>>
    /\ cv' = [cv EXCEPT !.rows = Tail(@)]
    /\ UNCHANGED <<twin, pc, last>>
    /\ CvUnchanged

\* lines 203-222: a test row of a team with training rows
CvPredictRow ==
    /\ pc = "cross_validate"
    /\ cv.phase = "rows"
    /\ cv.rows # <<>>
    /\ LET row == Head(cv.rows)
           team_historical == TeamRows(TrainData(CurrentPeriod), row.team)
       IN  /\ team_historical # <<>>
           /\ \E trend_features \in
                     weighted_average(team_historical, row.season_end_year),
                 predicted_pos \in RawOutputs :
                LET made == Prediction("cv", row.team, cv.rf_cv,
                                       trend_features, predicted_pos)
                IN  /\ last' = made
                    /\ cv' = [cv EXCEPT
                         !.rows = Tail(@),
                         !.fold_predictions = Append(@, made.adjusted_prediction),
                         !.fold_actuals = Append(@, row.position)]
    /\ UNCHANGED pc
    /\ CvUnchanged

\* lines 224-226: the fold's score, if it predicted anything
CvEndPeriod ==
    /\ pc = "cross_validate"
    /\ cv.phase = "rows"
    /\ cv.rows = <<>>
    /\ cv' = [cv EXCEPT
         !.phase = "period",
         !.period = @ + 1,
         !.cv_scores = IF cv.fold_predictions # <<>>
                       THEN Append(@, R2Score(cv.fold_actuals,
                                              cv.fold_predictions))
                       ELSE @]
    /\ UNCHANGED <<twin, pc, last>>
    /\ CvUnchanged

\* line 228, and the caller's return
CvReturn ==
    /\ pc = "cross_validate"
    /\ cv.phase = "period"
    /\ cv.period > Len(cv_periods)
    /\ cv' = [cv EXCEPT !.phase = "returned", !.result = CvResult(cv.cv_scores)]
    /\ pc' = IF cv.caller = "compare" THEN "done" ELSE "returned"
    /\ UNCHANGED last
    /\ CvUnchanged

----------------------------------------------------------------------------
(* A direct call of calculate_recent_form_score                            *)

TrendCall ==
    /\ pc = "trend"
    /\ ~trend.returned
    /\ \E value \in calculate_recent_form_score(trend.team_data,
                                                trend.current_year) :
           trend' = [trend EXCEPT !.returned = TRUE, !.value = value]
    /\ pc' = "returned"
    /\ UNCHANGED <<twin, raised, teams, prediction_year, confidence_level, rf_model,
                   i, predictions, confidence_intervals, boot, ci_results, cv,
                   comparison_df, last>>

----------------------------------------------------------------------------
(* Direct calls of the three functions, with arguments from bounded sets   *)

\* bootstrap_confidence_interval_recent_form(historical_data, team_data, ...)
\* for a team that has rows, historical_data being the rows before the year
InitBootstrap ==
    /\ pc = "bootstrap"
    /\ Loaded
    /\ \E y \in PredictionYears, t \in {"A", "B", "C"},
          n \in 0..MaxBootstrap, c \in ConfidenceLevels :
           /\ TeamRows(HistoricalData(y), t) # <<>>
           /\ prediction_year = y
           /\ confidence_level = c
           /\ boot = [NoBoot EXCEPT !.team = t, !.n_bootstrap = n,
                                    !.phase = "draw", !.caller = "direct"]
    /\ cv = NoCv
    /\ trend = NoTrend
    /\ twin = NoTwin

\* rows a table handed to cross_validate_time_series is made of
CvPool ==
    << [id |-> 11, team |-> "A", season_end_year |-> 2012, points |-> 40, position |-> 15],
       [id |-> 12, team |-> "A", season_end_year |-> 2013, points |-> 50, position |-> 10],
       [id |-> 13, team |-> "A", season_end_year |-> 2014, points |-> 60, position |-> 5],
       [id |-> 14, team |-> "B", season_end_year |-> 2015, points |-> 38, position |-> 17],
       [id |-> 15, team |-> "A", season_end_year |-> 2016, points |-> 55, position |-> 9],
       [id |-> 16, team |-> "B", season_end_year |-> 2017, points |-> 45, position |-> 12],
       [id |-> 17, team |-> "A", season_end_year |-> 2021, points |-> 44, position |-> 12] >>

CvDatasets ==
    {SelectSeq(CvPool, LAMBDA r : r.id \in ids) :
        ids \in SUBSET {CvPool[k].id : k \in DOMAIN CvPool}}

\* cross_validate_time_series(data, features, target, prediction_year)
InitCv ==
    /\ pc = "cross_validate"
    /\ Loaded
    /\ prediction_year = 0
    /\ confidence_level = 0
    /\ boot = NoBoot
    /\ \E table \in CvDatasets :
           cv = [NoCv EXCEPT !.data = table, !.period = 1, !.phase = "period",
                             !.caller = "direct"]
    /\ trend = NoTrend
    /\ twin = NoTwin

\* rows a table handed to calculate_recent_form_score is made of
TrendRows ==
    {[id |-> 0, team |-> "A", season_end_year |-> y, points |-> p, position |-> q] :
        y \in {2019, 2022, 2023}, p \in {40, 60}, q \in {5, 10}}

\* calculate_recent_form_score(team_data, current_year)
InitTrend ==
    /\ pc = "trend"
    /\ Loaded
    /\ prediction_year = 0
    /\ confidence_level = 0
    /\ boot = NoBoot
    /\ cv = NoCv
    /\ \E n \in 0..MaxTrendRows :
           \E rows \in [1..n -> TrendRows] :
               trend = [NoTrend EXCEPT !.team_data = rows, !.current_year = 2024]
    /\ twin = NoTwin

----------------------------------------------------------------------------
(* Two runs of bootstrap_confidence_interval_recent_form on the same       *)
(* arguments, pass by pass.  What a pass takes from its seed or from a     *)
(* fixed random_state is the same in both runs: the rows sample() draws    *)
(* with random_state=i (line 113) and the output of the regressor made     *)
(* with random_state=42 (line 119) for the same sample and the same        *)
(* feature vector.  What np.random.normal draws at line 70 comes from the  *)
(* process-wide generator and is chosen by each run for itself.            *)

\* rows the table handed to both runs is made of: rows 1 to 3 are the rows
\* of data before 2021, row 5 is a second row of A for 2020
TwinPool ==
    << [id |-> 1, team |-> "A", season_end_year |-> 2019, points |-> 44, position |-> 13],
       [id |-> 2, team |-> "A", season_end_year |-> 2020, points |-> 54, position |-> 8],
       [id |-> 3, team |-> "B", season_end_year |-> 2020, points |-> 38, position |-> 17],
       [id |-> 5, team |-> "A", season_end_year |-> 2020, points |-> 40, position |-> 15] >>

TwinTables ==
    {SelectSeq(TwinPool, LAMBDA r : r.id \in ids) :
        ids \in {s \in SUBSET {TwinPool[k].id : k \in DOMAIN TwinPool} :
                    Cardinality(s) \in 1..2}}

\* both runs are called with the same table, team, year, n_bootstrap and level
InitTwin ==
    /\ pc = "bootstrap"
    /\ Loaded
    /\ prediction_year = 2021
    /\ \E table \in TwinTables, t \in {"A", "B"}, n \in 0..MaxBootstrap,
          c \in ConfidenceLevels :
           /\ TeamRows(table, t) # <<>>
           /\ confidence_level = c
           /\ boot = [NoBoot EXCEPT !.team = t, !.n_bootstrap = n,
                                    !.phase = "draw", !.caller = "direct"]
           /\ twin = [NoTwin EXCEPT !.historical_data = table]
    /\ cv = NoCv
    /\ trend = NoTrend

\* lines 111-139, pass boot.iteration of both runs
TwinPass ==
    /\ pc = "bootstrap"
    /\ boot.phase = "draw"
    /\ boot.iteration < boot.n_bootstrap
    /\ LET historical_data == twin.historical_data
           n == Len(historical_data)
       IN  \E draw \in Multisets(n, n) :
             LET bootstrap_sample ==
                     [k \in DOMAIN draw |-> historical_data[draw[k]]]
                 rf_boot == FreshModel(bootstrap_sample, "bootstrap")
                 team_bootstrap == TeamRows(bootstrap_sample, boot.team)
             IN  IF Len(team_bootstrap) > 0
                 THEN \E first \in weighted_average(team_bootstrap, prediction_year),
                         second \in weighted_average(team_bootstrap, prediction_year),
                         predicted_pos \in RawOutputs :
                        LET one == Prediction("bootstrap", boot.team, rf_boot,
                                              first, predicted_pos)
                            two == Prediction("bootstrap", boot.team, rf_boot,
                                              second, predicted_pos)
                        IN  /\ boot' = [boot EXCEPT
                                 !.iteration = @ + 1,
                                 !.bootstrap_predictions =
                                     Append(@, one.adjusted_prediction)]
                            /\ twin' = [twin EXCEPT
                                 !.bootstrap_predictions =
                                     Append(@, two.adjusted_prediction)]
                 ELSE /\ boot' = [boot EXCEPT !.iteration = @ + 1]
                      /\ UNCHANGED twin
    /\ UNCHANGED <<pc, raised, teams, prediction_year, confidence_level,
                   rf_model, i, predictions, confidence_intervals, ci_results,
                   cv, comparison_df, trend, last>>

\* lines 141-157 of both runs with at least one collected prediction
TwinReturn ==
    /\ pc = "bootstrap"
    /\ boot.phase = "draw"
    /\ boot.iteration = boot.n_bootstrap
    /\ boot.bootstrap_predictions # <<>>
    /\ ci_results' = IntervalRecord(boot.bootstrap_predictions, confidence_level)
    /\ twin' = [twin EXCEPT !.ci_results =
                   IntervalRecord(twin.bootstrap_predictions, confidence_level)]
    /\ pc' = "returned"
    /\ UNCHANGED <<raised, teams, prediction_year, confidence_level, rf_model,
                   i, predictions, confidence_intervals, boot, cv,
                   comparison_df, trend, last>>

\* lines 141-157 of both runs with no collected prediction: both runs are on
\* the same numpy, so both return nans or both leave with IndexError
TwinReturnEmpty ==
    /\ pc = "bootstrap"
    /\ boot.phase = "draw"
    /\ boot.iteration = boot.n_bootstrap
    /\ boot.bootstrap_predictions = <<>>
    /\ \/ /\ ci_results' = NaNRecord(confidence_level)
          /\ twin' = [twin EXCEPT !.ci_results = NaNRecord(confidence_level)]
          /\ pc' = "returned"
          /\ UNCHANGED raised
       \/ /\ raised' = "IndexError"
          /\ twin' = [twin EXCEPT !.raised = "IndexError"]
          /\ pc' = "raised"
          /\ UNCHANGED ci_results
    /\ UNCHANGED <<teams, prediction_year, confidence_level, rf_model,
                   i, predictions, confidence_intervals, boot, cv,
                   comparison_df, trend, last>>

----------------------------------------------------------------------------
(* Specifications                                                          *)

\* the program: the module is loaded, then compare_predictions_with_confidence
Next ==
    \/ Compare
    \/ SkipTeam
    \/ CallBootstrap
    \/ BootstrapDraw
    \/ BootstrapCollect
    \/ BootstrapReturn
    \/ BootstrapReturnEmptyNaN
    \/ BootstrapReturnEmptyIndexError
    \/ PredictTeam
    \/ RankPredictions
    \/ CvSkipPeriod
    \/ CvStartPeriod
    \/ CvSkipRow
    \/ CvPredictRow
    \/ CvEndPeriod
    \/ CvReturn

Spec == Init /\ [][Next]_vars

NextBootstrap ==
    \/ BootstrapDraw
    \/ BootstrapCollect
    \/ BootstrapReturn
    \/ BootstrapReturnEmptyNaN
    \/ BootstrapReturnEmptyIndexError

SpecBootstrap == InitBootstrap /\ [][NextBootstrap]_vars

NextCv ==
    \/ CvSkipPeriod
    \/ CvStartPeriod
    \/ CvSkipRow
    \/ CvPredictRow
    \/ CvEndPeriod
    \/ CvReturn

SpecCv == InitCv /\ [][NextCv]_vars

SpecTrend == InitTrend /\ [][TrendCall]_vars

NextTwin ==
    \/ TwinPass
    \/ TwinReturn
    \/ TwinReturnEmpty

SpecTwin == InitTwin /\ [][NextTwin]_vars

----------------------------------------------------------------------------
(* Properties                                                              *)

\* the value lines 283, 136 and 218 hold before the clamp
Unclamped(made) ==
    made.predicted_pos + (-made.features.recent_form_score * 50) \div 1000

\* C1: every adjusted position produced by the main prediction, by a
\* bootstrap pass or for a cross-validation test row lies within [1, 20]
\* (1000..20000 in thousandths), whatever the regressor returned and
\* whatever the recent form score was.
C1_AdjustedWithinBounds ==
    /\ last.context \in {"main", "bootstrap", "cv"}
           => last.adjusted_prediction \in 1000..20000
    /\ \A k \in DOMAIN predictions : predictions[k].adjusted \in 1000..20000
    /\ \A k \in DOMAIN boot.bootstrap_predictions :
           boot.bootstrap_predictions[k] \in 1000..20000
    /\ \A k \in DOMAIN cv.fold_predictions :
           cv.fold_predictions[k] \in 1000..20000

\* C1 witness: a main prediction whose adjusted value left [1, 20] before the
\* clamp, after a bootstrap prediction was collected for the same team
C1_Witness ==
    /\ last.context = "main"
    /\ Unclamped(last) < 1000
    /\ last.features.recent_form_score # 0
    /\ confidence_intervals # <<>>
    /\ confidence_intervals[Len(confidence_intervals)].prediction.den > 0

\* the ranking of lines 312-317 has been made
Ranked == pc \in {"cross_validate", "done"} \/ raised = "KeyError"

\* the rows of a team before the prediction year, read from the dataset
HasHistory(team) ==
    \E k \in DOMAIN data : /\ data[k].team = team
                           /\ data[k].season_end_year < prediction_year

\* C2: once ranked, the predicted ranks are a permutation of 1..K without
\* duplicates or gaps, K being the number of entries of the team list for
\* which an adjusted position was produced (entries without history are not
\* counted).
C2_RanksArePermutation ==
    Ranked =>
        LET K == Cardinality({j \in DOMAIN teams : HasHistory(teams[j])})
        IN  /\ Len(predictions) = K
            /\ {predictions[k].PredictedPosition : k \in DOMAIN predictions}
                   = 1..K
            /\ {predictions[k].idx : k \in DOMAIN predictions}
                   = {j \in DOMAIN teams : HasHistory(teams[j])}

\* C2 witness: a ranking of two predicted teams made from a list that also
\* held a team without history
C2_Witness ==
    /\ Ranked
    /\ Len(predictions) = 2
    /\ Len(teams) = 3

\* C3: ranks ascend with the adjusted position, and entries with the same
\* adjusted position get consecutive ranks in the order of the team list.
C3_AscendingStableRanks ==
    Ranked =>
        \A j, k \in DOMAIN predictions :
            predictions[j].PredictedPosition < predictions[k].PredictedPosition
                <=> \/ predictions[j].adjusted < predictions[k].adjusted
                    \/ /\ predictions[j].adjusted = predictions[k].adjusted
                       /\ predictions[j].idx < predictions[k].idx

\* C3 witness: two different teams ranked with the same adjusted position,
\* and a ranking in which a later team of the list is placed first
C3_Witness ==
    /\ Ranked
    /\ \E j, k \in DOMAIN predictions :
           /\ predictions[j].Team # predictions[k].Team
           /\ predictions[j].adjusted = predictions[k].adjusted
           /\ predictions[j].idx < predictions[k].idx
           /\ predictions[j].PredictedPosition + 1
                  = predictions[k].PredictedPosition

\* a bootstrap call has ended, by a return or by an exception
BootstrapEnded ==
    /\ boot.caller # "none"
    /\ boot.phase = "draw"
    /\ boot.iteration = boot.n_bootstrap
    /\ pc # "bootstrap"

\* C4: a bootstrap call in which no pass yielded a prediction (n_bootstrap = 0
\* or the team absent from every draw) fails with InsufficientBootstrapSamples
\* and returns no interval record.
C4_EmptyRunFails ==
    (BootstrapEnded /\ boot.bootstrap_predictions = <<>>)
        => /\ raised = "InsufficientBootstrapSamples"
           /\ ci_results = NoRecord

\* a direct bootstrap call has returned an interval from collected predictions
IntervalReturned ==
    /\ pc = "returned"
    /\ boot.caller = "direct"
    /\ boot.bootstrap_predictions # <<>>

\* C5 as stated: whenever predictions were collected, the returned interval
\* has lower_bound <= point_estimate <= upper_bound.
C5_MeanWithinInterval ==
    IntervalReturned =>
        /\ RatLeq(ci_results.lower_bound, ci_results.prediction)
        /\ RatLeq(ci_results.prediction, ci_results.upper_bound)

\* C5 amended: whenever predictions were collected, lower_bound <= upper_bound
\* and the point estimate and both bounds lie between the smallest and the
\* largest collected prediction.
C5_IntervalWithinSample ==
    IntervalReturned =>
        LET sample == {boot.bootstrap_predictions[k] :
                          k \in DOMAIN boot.bootstrap_predictions}
            low  == CHOOSE v \in sample : \A w \in sample : v <= w
            high == CHOOSE v \in sample : \A w \in sample : v >= w
            Within(r) == /\ RatLeq([num |-> low, den |-> 1], r)
                         /\ RatLeq(r, [num |-> high, den |-> 1])
        IN  /\ RatLeq(ci_results.lower_bound, ci_results.upper_bound)
            /\ Within(ci_results.prediction)
            /\ Within(ci_results.lower_bound)
            /\ Within(ci_results.upper_bound)

\* C5 witness: an interval from three collected predictions, not all equal,
\* whose mean lies above its upper bound
C5_Witness ==
    /\ IntervalReturned
    /\ Len(boot.bootstrap_predictions) = 3
    /\ ~RatLeq(ci_results.prediction, ci_results.upper_bound)
    /\ ~RatLeq(ci_results.upper_bound, ci_results.lower_bound)

\* ids of the rows of a table that belong to a team and end by a year
IdsUpTo(table, team, year) ==
    {table[k].id : k \in {j \in DOMAIN table :
                             /\ table[j].team = team
                             /\ table[j].season_end_year <= year}}

\* C6: every main prediction is made by a model whose training set is exactly
\* the rows with season_end_year < prediction_year, from a feature vector
\* built from exactly the team's rows with season_end_year < prediction_year,
\* although rf_model was first fitted on a random split of all rows.
C6_MainPredictionNoLeak ==
    last.context = "main" =>
        /\ last.model.trained_on
               = BagOf(SelectSeq(data, LAMBDA r :
                                     r.season_end_year < prediction_year))
        /\ last.features.rows = IdsUpTo(data, last.team, prediction_year - 1)
        /\ last.features.rows # {}
        /\ last.features.current_year = prediction_year

\* C6 witness: a main prediction made while the dataset holds a row at or
\* after the prediction year and the team's form score is not zero
C6_Witness ==
    /\ last.context = "main"
    /\ \E k \in DOMAIN data : data[k].season_end_year >= prediction_year
    /\ last.features.recent_form_score # 0

\* the fold whose test window holds a year
FoldOfYear(year) ==
    CHOOSE p \in Range(cv_periods) : year \in p.test_start..p.test_end

\* C7: in every fold the model is trained on exactly the rows with
\* season_end_year <= train_end, each prediction's feature vector is built
\* from exactly the team's rows of that window, and the fold holds one
\* prediction per visited test row whose team has a row in the window, none
\* for the others.
C7_FoldNoLeak ==
    /\ last.context = "cv" =>
           LET fold == FoldOfYear(last.features.current_year)
           IN  /\ last.model.trained_on
                      = BagOf(SelectSeq(cv.data, LAMBDA r :
                                  r.season_end_year <= fold.train_end))
               /\ last.features.rows
                      = IdsUpTo(cv.data, last.team, fold.train_end)
               /\ last.features.rows # {}
    /\ cv.phase = "rows" =>
           LET fold == cv_periods[cv.period]
               tests == {k \in DOMAIN cv.data :
                            cv.data[k].season_end_year
                                \in fold.test_start..fold.test_end}
               waiting == {cv.rows[k].id : k \in DOMAIN cv.rows}
               counted == {k \in tests :
                              /\ cv.data[k].id \notin waiting
                              /\ IdsUpTo(cv.data, cv.data[k].team,
                                         fold.train_end) # {}}
           IN  /\ Len(cv.fold_predictions) = Cardinality(counted)
               /\ Len(cv.fold_actuals) = Cardinality(counted)

\* C7 witness: a fold prediction with a form score that is not zero, in a
\* table that also holds a test row of a team without training rows
C7_Witness ==
    /\ last.context = "cv"
    /\ last.features.recent_form_score # 0
    /\ LET fold == FoldOfYear(last.features.current_year)
       IN  \E k \in DOMAIN cv.data :
               /\ cv.data[k].season_end_year \in fold.test_start..fold.test_end
               /\ IdsUpTo(cv.data, cv.data[k].team, fold.train_end) = {}

\* C8: calculate_recent_form_score returns exactly 0 whenever the rows with
\* season_end_year >= current_year - 3 hold fewer than 2 distinct years.
C8_ZeroWithoutTwoYears ==
    trend.returned =>
        LET years == {trend.team_data[k].season_end_year :
                         k \in {j \in DOMAIN trend.team_data :
                                   trend.team_data[j].season_end_year
                                       >= trend.current_year - 3}}
        IN  Cardinality(years) < 2 => trend.value = 0

C10_ModelsPrivate ==
    /\ Cardinality(rf_model.fitted_in) <= 1
    /\ Cardinality(boot.rf_boot.fitted_in) <= 1
    /\ Cardinality(cv.rf_cv.fitted_in) <= 1
    /\ last.context # "none" => last.model.fitted_in = {last.context}

\* C11: two runs of the bootstrap call with the same table, team, year,
\* n_bootstrap and confidence level return identical interval records
C11_Reproducible ==
    pc \in {"returned", "raised"} /\ twin.historical_data # <<>>
        => /\ twin.ci_results = ci_results
           /\ twin.raised = raised

====
